---- MODULE Spec2Model ----
(***************************************************************************)
(* A model of the ShippingCo API server (src/server.js): the shipment      *)
(* store with its event ledger, and the credential store with             *)
(* registration.  Every handler is split at its await points, so requests  *)
(* interleave exactly where the Node event loop lets them interleave.      *)
(* Store operations (nedb findOne / update / insert / remove / count) are  *)
(* atomic and run in the order they are issued.                            *)
(***************************************************************************)
EXTENDS Integers, Sequences, FiniteSets, TLC

(* ------------------------------ bounds -------------------------------- *)

\* number of shipment ids the store can hand out
MaxShips == 2
\* number of patch, append-event and remove-event requests in one run
MaxCalls == 2
\* last value of the millisecond clock
MaxClock == 1
\* number of register requests in one run
MaxAuthCalls == 3
\* quotes the store can hold
MaxQuotes == 2
\* quote patch requests over the whole run
MaxQuoteCalls == 1

ShipIds == 1..MaxShips
Reqs == 1..MaxCalls
AuthReqs == 1..MaxAuthCalls
UserIds == 1..MaxAuthCalls
QuoteIds == 1..MaxQuotes
QuoteReqs == 1..MaxQuoteCalls

\* the event requests address one shipment: every store call is keyed by _id, so
\* requests on other ids leave its document alone
LedgerIds == {1}
\* the slot a request of more than one step takes when the requests come one by one
GateReqs == {1}

(* --------------------------- JavaScript values ------------------------ *)

\* a request body is a record holding only the fields the caller sent
Has(body, f) == f \in DOMAIN body

\* the empty body {}
NoFields == [f \in {} |-> ""]

\* JavaScript truthiness of a string
Truthy(v) == v # ""

\* body.f || dflt
OrElse(body, f, dflt) == IF Has(body, f) /\ Truthy(body[f]) THEN body[f] ELSE dflt

(* ------------------------------ inputs -------------------------------- *)

\* values nanoid() returns for an event id
EventIds == {"e1", "e2"}

\* values nanoid() returns as the suffix of a tracking number
Suffixes == {"A", "B"}

\* an event a caller passes in the events array of a create body
CallerEvent == [id |-> "e1", status |-> "Picked", location |-> ""]

\* the values of body.events in a create request: a JSON array, or something else
EventsInputs ==
  { [array |-> TRUE, items |-> <<>>],
    [array |-> TRUE, items |-> <<CallerEvent>>],
    [array |-> FALSE, items |-> <<>>] }

CreateBodies ==
  {NoFields, [origin |-> "LA"]} \cup {[events |-> e] : e \in EventsInputs}

AppendBodies == {NoFields, [status |-> ""], [status |-> "Delivered"]}

\* a tracking number a caller writes into a patch
CallerTracking == [time |-> 0, suffix |-> "A"]

PatchBodies == {NoFields, [status |-> "Held"], [trackingNumber |-> CallerTracking]}

\* the values of :trackingNumber in GET /api/track/:trackingNumber, as characters: a
\* stored number, in lower case, with blanks around it, with a dot for its last
\* character, without its last character, and a number of no shipment
TrackInputs ==
  { <<"S", "C", "0", "A">>,
    <<"s", "c", "0", "a">>,
    <<" ", "S", "C", "0", "B", " ">>,
    <<"S", "C", "0", ".">>,
    <<"S", "C", "0">>,
    <<"S", "C", "Z", "Z">> }

\* a timestamp a caller writes into a body: later than the clock gets
CallerTime == MaxClock + 1

\* patch bodies that carry a timestamp
ClockPatchBodies == {NoFields, [createdAt |-> CallerTime], [updatedAt |-> CallerTime]}

\* bodies of POST /api/quotes: none, fields of the caller's own, and the two fields
\* the handler sets itself
QuoteBodies ==
  { NoFields,
    [customer |-> "Acme"],
    [customer |-> "Acme", status |-> "approved"],
    [createdAt |-> CallerTime, status |-> "approved"] }

\* bodies of PATCH /api/quotes/:id
QuotePatchBodies == {NoFields, [status |-> "approved"]}

\* the admin of GateInit and the tokens a request can carry: the one the admin was
\* given at time 0, one given seven days before time 1, one signed with another secret
Admin == [email |-> "a@b.com", password |-> [of |-> "pw1", salt |-> "s1"]]
GoodToken == [sub |-> 1, email |-> "a@b.com", key |-> "dev_secret_change_me", exp |-> 604800]
OldToken == [sub |-> 1, email |-> "a@b.com", key |-> "dev_secret_change_me", exp |-> 1]
ForgedToken == [sub |-> 1, email |-> "a@b.com", key |-> "guess", exp |-> 604800]

\* the Authorization header of a request: its first seven characters when they are
\* 'Bearer ' or 'Basic ' (else nothing), and the token after them
Headers ==
  { [prefix |-> "", rest |-> <<>>],
    [prefix |-> "Basic ", rest |-> <<GoodToken>>],
    [prefix |-> "Bearer ", rest |-> <<>>],
    [prefix |-> "Bearer ", rest |-> <<GoodToken>>],
    [prefix |-> "Bearer ", rest |-> <<OldToken>>],
    [prefix |-> "Bearer ", rest |-> <<ForgedToken>>] }

RegisterBodies ==
  { NoFields,
    [email |-> "A@b.com", password |-> "secret1"],
    [email |-> "a@b.com", password |-> "pw2"],
    [email |-> "c@d.com", password |-> ""] }

\* bodies of POST /api/auth/login: the two registered passwords with the email in
\* either case, an email nobody registered, a wrong password, no password
LoginBodies ==
  { [email |-> "a@b.com", password |-> "secret1"],
    [email |-> "A@b.com", password |-> "pw2"],
    [email |-> "x@y.com", password |-> "pw2"],
    [email |-> "a@b.com", password |-> "guess"],
    [email |-> "a@b.com"] }

\* the salts bcrypt draws
Salts == {"s1", "s2"}

(* ------------------------------- state -------------------------------- *)

VARIABLES
  now,        \* Date.now(), in milliseconds
  shipments,  \* the shipments datastore: _id -> document
  req,        \* the patch and event requests, by slot
  reply,      \* the response the last step sent, with the request it answers
  quotes,     \* the quotes datastore: _id -> document
  qreq,       \* the quote patch requests, by slot
  users,      \* the users datastore: _id -> document
  areq,       \* the register requests, by slot
  issued      \* the tokens handed out so far

vars == <<now, shipments, req, reply, quotes, qreq, users, areq, issued>>
shipVars == <<now, shipments, req>>
quoteVars == <<quotes, qreq>>
authVars == <<users, areq, issued>>

\* a slot before its request arrives, and after its response is sent
Idle == [pc |-> "idle"]
Done == [pc |-> "done"]
\* the last step sent no response
NoReply == [req |-> [kind |-> "none"], code |-> 0, error |-> "", doc |-> <<>>, token |-> <<>>]

\* res.status(code).json(doc) / res.status(code).json({error})
Reply(r, code, error, doc) ==
  [req |-> r, code |-> code, error |-> error, doc |-> doc, token |-> <<>>]

\* the requests take the slots in the order they arrive
FreeSlot(slots, r) ==
  /\ slots[r].pc = "idle"
  /\ \A q \in DOMAIN slots : q < r => slots[q].pc # "idle"

InFlight(slot) == slot.pc \notin {"idle", "done"}

\* no request is between two of its steps
Quiet ==
  /\ \A r \in Reqs : ~ InFlight(req[r])
  /\ \A r \in QuoteReqs : ~ InFlight(qreq[r])

\* the other requests in flight on shipment id note that it was written under them
Raced(r, id) ==
  [q \in Reqs |->
     IF q # r /\ InFlight(req[q]) /\ req[q].id = id
     THEN [req[q] EXCEPT !.raced = TRUE] ELSE req[q]]

\* Update with the upsert option
UpdateUpsert(id, set) ==
  IF id \in DOMAIN shipments
  THEN [shipments EXCEPT ![id] = set @@ shipments[id]]
  ELSE (id :> set) @@ shipments

\* shipments.update({_id: id}, {$set: set}): no document, no change
Update(id, set) ==
  IF id \in DOMAIN shipments
  THEN [shipments EXCEPT ![id] = set @@ shipments[id]]
  ELSE shipments

\* shipments.findOne({_id: id}): the document, or null (the empty sequence)
FindOne(id) == IF id \in DOMAIN shipments THEN <<shipments[id]>> ELSE <<>>

\* cfind({}).sort({ createdAt: -1 }).exec(): the documents of a store, latest
\* createdAt first, documents of one createdAt in any order
SortedLists(store) ==
  LET n == Cardinality(DOMAIN store)
      orders == {o \in [1..n -> DOMAIN store] :
                   /\ \A i, j \in 1..n : i # j => o[i] # o[j]
                   /\ \A i, j \in 1..n : i < j => store[o[i]].createdAt >= store[o[j]].createdAt}
  IN {[i \in 1..n |-> store[o[i]]] : o \in orders}

(* --------------------------- identifier generator --------------------- *)

\* 'SC' + Date.now().toString(36).toUpperCase() + nanoid()
trackingNumber(suffix) == [time |-> now, suffix |-> suffix]

(* ------------------------------ shipments ----------------------------- *)

\* the events a new shipment starts with
CreateEvents(body, evid) ==
  IF Has(body, "events") /\ body.events.array
  THEN body.events.items
  ELSE << [id |-> evid, status |-> "Created", location |-> OrElse(body, "origin", "")] >>

\* POST /api/shipments
CreateShipment(body, id, suffix, evid) ==
  /\ id \notin DOMAIN shipments
  /\ LET doc == [trackingNumber |-> trackingNumber(suffix),
                 status |-> OrElse(body, "status", "Created"),
                 createdAt |-> now,
                 updatedAt |-> now,
                 events |-> CreateEvents(body, evid)]
     IN /\ shipments' = (id :> doc) @@ shipments
        /\ reply' = Reply([pc |-> "done", kind |-> "create", id |-> id, body |-> body],
                          201, "", <<doc>>)
  /\ req' = Raced(0, id)
  /\ UNCHANGED <<now, quoteVars, authVars>>

\* PATCH /api/shipments/:id, to the end of its update
PatchUpdate(r, id, body) ==
  /\ FreeSlot(req, r)
  /\ shipments' = Update(id, [updatedAt |-> now] @@ body)
  /\ req' = [Raced(r, id) EXCEPT ![r] =
               [pc |-> "reread", kind |-> "patch", id |-> id, raced |-> FALSE]]
  /\ reply' = NoReply
  /\ UNCHANGED <<now, quoteVars, authVars>>

\* PATCH /api/shipments/:id, from its findOne on
PatchReread(r) ==
  /\ req[r].pc = "reread" /\ req[r].kind = "patch"
  /\ reply' = Reply(req[r], 200, "", FindOne(req[r].id))
  /\ req' = [req EXCEPT ![r] = Done]
  /\ UNCHANGED <<now, shipments, quoteVars, authVars>>

\* GET /api/shipments
ListShipments ==
  /\ \E list \in SortedLists(shipments) :
       reply' = Reply([pc |-> "done", kind |-> "list"], 200, "", <<list>>)
  /\ UNCHANGED <<shipVars, quoteVars, authVars>>

\* DeleteShipment that answers 404 when there is no such shipment
DeleteShipmentStrict(id) ==
  /\ shipments' = [i \in DOMAIN shipments \ {id} |-> shipments[i]]
  /\ req' = Raced(0, id)
  /\ reply' = IF id \in DOMAIN shipments
              THEN Reply([pc |-> "done", kind |-> "delete", id |-> id], 200, "",
                         << [ok |-> TRUE] >>)
              ELSE Reply([pc |-> "done", kind |-> "delete", id |-> id], 404, "not_found", <<>>)
  /\ UNCHANGED <<now, quoteVars, authVars>>

\* DELETE /api/shipments/:id
DeleteShipment(id) ==
  /\ shipments' = [i \in DOMAIN shipments \ {id} |-> shipments[i]]
  /\ req' = Raced(0, id)
  /\ reply' = Reply([pc |-> "done", kind |-> "delete", id |-> id], 200, "",
                    << [ok |-> TRUE] >>)
  /\ UNCHANGED <<now, quoteVars, authVars>>

(* ---------------------------- public tracking ------------------------- *)

\* the digits of Number.prototype.toString(36), in upper case
Digits36 ==
  << "0", "1", "2", "3", "4", "5", "6", "7", "8", "9", "A", "B", "C", "D", "E", "F", "G", "H",
     "I", "J", "K", "L", "M", "N", "O", "P", "Q", "R", "S", "T", "U", "V", "W", "X", "Y", "Z" >>

RECURSIVE Base36(_)
\* n.toString(36).toUpperCase(), as characters
Base36(n) ==
  IF n < Len(Digits36)
  THEN << Digits36[n + 1] >>
  ELSE Base36(n \div Len(Digits36)) \o << Digits36[(n % Len(Digits36)) + 1] >>

\* the characters of a stored tracking number: 'SC', the time in base 36, the suffix
Text(tn) == <<"S", "C">> \o Base36(tn.time) \o <<tn.suffix>>

\* the lower-case form of a character
LowerChar(c) ==
  CASE c = "A" -> "a" [] c = "B" -> "b" [] c = "C" -> "c" [] c = "S" -> "s"
    [] c = "Z" -> "z" [] OTHER -> c

RECURSIVE Trim(_)
\* String.prototype.trim
Trim(t) ==
  IF t = <<>> THEN t
  ELSE IF Head(t) = " " THEN Trim(Tail(t))
  ELSE IF t[Len(t)] = " " THEN Trim(SubSeq(t, 1, Len(t) - 1))
  ELSE t

\* new RegExp('^' + t + '$', 'i').test(text), for a t whose only metacharacter is
\* the dot: a dot stands for any character, any other character for itself in
\* either case
RegExpTest(t, text) ==
  /\ Len(t) = Len(text)
  /\ \A i \in 1..Len(t) : t[i] = "." \/ LowerChar(t[i]) = LowerChar(text[i])

\* GET /api/track/:trackingNumber
TrackShipment(param) ==
  /\ LET t == Trim(param)
         call == [pc |-> "done", kind |-> "track", trackingNumber |-> param]
         found == {id \in DOMAIN shipments : RegExpTest(t, Text(shipments[id].trackingNumber))}
     IN IF found = {}
        THEN reply' = Reply(call, 404, "not_found", <<>>)
        ELSE \E id \in found : reply' = Reply(call, 200, "", <<shipments[id]>>)
  /\ UNCHANGED <<shipVars, quoteVars, authVars>>

(* ---------------------------- tracking events ------------------------- *)

\* NotFound with the answer of a findOne that found nothing
NotFoundAsNull(call) == Reply(call, 200, "", <<>>)

\* if(!s) return res.status(404).json({ error:'not_found' })
NotFound(call) == Reply(call, 404, "not_found", <<>>)


\* the event POST /api/shipments/:id/events builds from its body
NewEvent(body, evid) ==
  [id |-> evid,
   status |-> OrElse(body, "status", "In Transit"),
   location |-> OrElse(body, "location", "")]

\* AppendSet with push in place of unshift
AppendSetPush(s, body, event, t) ==
  [events |-> s.events \o <<event>>,
   updatedAt |-> t,
   status |-> OrElse(body, "status", s.status)]

\* AppendSet with the event put behind the newest event
AppendSetSecond(s, body, event, t) ==
  [events |-> IF s.events = <<>>
              THEN <<event>>
              ELSE <<Head(s.events), event>> \o Tail(s.events),
   updatedAt |-> t,
   status |-> OrElse(body, "status", s.status)]

\* the $set of POST /api/shipments/:id/events: s is what findOne returned
AppendSet(s, body, event, t) ==
  [events |-> <<event>> \o s.events,
   updatedAt |-> t,
   status |-> OrElse(body, "status", s.status)]

\* POST /api/shipments/:id/events, to the end of its findOne.  Every ledger in the
\* store is an array here, so Array.isArray(s.events) ? s.events : [] is s.events.
AppendFind(r, id, body, evid) ==
  /\ FreeSlot(req, r)
  /\ LET event == NewEvent(body, evid)
         call == [pc |-> "update", kind |-> "append", id |-> id, body |-> body,
                  event |-> event, raced |-> FALSE]
     IN IF id \notin DOMAIN shipments
        THEN /\ reply' = NotFound(call)
             /\ req' = [req EXCEPT ![r] = Done]
        ELSE /\ reply' = NoReply
             /\ req' = [req EXCEPT ![r] =
                          call @@ [s |-> [events |-> shipments[id].events,
                                          status |-> shipments[id].status]]]
  /\ UNCHANGED <<now, shipments, quoteVars, authVars>>

\* POST /api/shipments/:id/events, its update
AppendUpdate(r) ==
  /\ req[r].pc = "update" /\ req[r].kind = "append"
  /\ shipments' = Update(req[r].id, AppendSet(req[r].s, req[r].body, req[r].event, now))
  /\ req' = [Raced(r, req[r].id) EXCEPT ![r] =
               [pc |-> "reread", kind |-> "append", id |-> req[r].id,
                body |-> req[r].body, event |-> req[r].event, raced |-> req[r].raced]]
  /\ reply' = NoReply
  /\ UNCHANGED <<now, quoteVars, authVars>>

\* AppendReread that answers 409 when the document was written under the call
AppendRereadChecked(r) ==
  /\ req[r].pc = "reread" /\ req[r].kind = "append"
  /\ reply' = IF req[r].raced
              THEN Reply(req[r], 409, "conflict", <<>>)
              ELSE Reply(req[r], 201, "", FindOne(req[r].id))
  /\ req' = [req EXCEPT ![r] = Done]
  /\ UNCHANGED <<now, shipments, quoteVars, authVars>>

\* POST /api/shipments/:id/events, from its second findOne on
AppendReread(r) ==
  /\ req[r].pc = "reread" /\ req[r].kind = "append"
  /\ reply' = Reply(req[r], 201, "", FindOne(req[r].id))
  /\ req' = [req EXCEPT ![r] = Done]
  /\ UNCHANGED <<now, shipments, quoteVars, authVars>>

\* RemoveSet that also drops the oldest event
RemoveSetCut(s, eventId, t) ==
  [events |-> SelectSeq(SubSeq(s.events, 1, Len(s.events) - 1), LAMBDA ev : ev.id # eventId),
   updatedAt |-> t]

\* RemoveSet that also sets status from the newest event left
RemoveSetRestatus(s, eventId, t) ==
  LET left == SelectSeq(s.events, LAMBDA ev : ev.id # eventId)
  IN IF left = <<>>
     THEN [events |-> left, updatedAt |-> t]
     ELSE [events |-> left, updatedAt |-> t, status |-> left[1].status]

\* the $set of DELETE /api/shipments/:id/events/:eventId
RemoveSet(s, eventId, t) ==
  [events |-> SelectSeq(s.events, LAMBDA ev : ev.id # eventId),
   updatedAt |-> t]

\* DELETE /api/shipments/:id/events/:eventId, to the end of its findOne
\* (s.events || [] is s.events, an array being truthy)
RemoveFind(r, id, eventId) ==
  /\ FreeSlot(req, r)
  /\ LET call == [pc |-> "update", kind |-> "remove", id |-> id, eventId |-> eventId,
                  raced |-> FALSE]
     IN IF id \notin DOMAIN shipments
        THEN /\ reply' = NotFound(call)
             /\ req' = [req EXCEPT ![r] = Done]
        ELSE /\ reply' = NoReply
             /\ req' = [req EXCEPT ![r] =
                          call @@ [s |-> [events |-> shipments[id].events]]]
  /\ UNCHANGED <<now, shipments, quoteVars, authVars>>

\* DELETE /api/shipments/:id/events/:eventId, its update
RemoveUpdate(r) ==
  /\ req[r].pc = "update" /\ req[r].kind = "remove"
  /\ shipments' = Update(req[r].id, RemoveSet(req[r].s, req[r].eventId, now))
  /\ req' = [Raced(r, req[r].id) EXCEPT ![r] =
               [req[r] EXCEPT !.pc = "reread"]]
  /\ reply' = NoReply
  /\ UNCHANGED <<now, quoteVars, authVars>>

\* DELETE /api/shipments/:id/events/:eventId, from its second findOne on
RemoveReread(r) ==
  /\ req[r].pc = "reread" /\ req[r].kind = "remove"
  /\ reply' = Reply(req[r], 200, "", FindOne(req[r].id))
  /\ req' = [req EXCEPT ![r] = Done]
  /\ UNCHANGED <<now, shipments, quoteVars, authVars>>

(* ------------------------------- quotes ------------------------------- *)

\* the document of POST /api/quotes with the body's fields spread last
QuoteDocBodyLast(q, t) == q @@ [status |-> "new", createdAt |-> t]

\* { ...q, status:'new', createdAt: now }: a later key overrides an earlier one
QuoteDoc(q, t) == [status |-> "new", createdAt |-> t] @@ q

\* POST /api/quotes
CreateQuote(body, id) ==
  /\ id \notin DOMAIN quotes
  /\ LET doc == QuoteDoc(body, now)
     IN /\ quotes' = (id :> doc) @@ quotes
        /\ reply' = Reply([pc |-> "done", kind |-> "createQuote", id |-> id, body |-> body],
                          201, "", <<doc>>)
  /\ UNCHANGED <<shipVars, qreq, authVars>>

\* GET /api/quotes
ListQuotes ==
  /\ \E list \in SortedLists(quotes) :
       reply' = Reply([pc |-> "done", kind |-> "listQuotes"], 200, "", <<list>>)
  /\ UNCHANGED <<shipVars, quoteVars, authVars>>

\* PATCH /api/quotes/:id, to the end of its update
PatchQuoteUpdate(r, id, body) ==
  /\ FreeSlot(qreq, r)
  /\ quotes' = IF id \in DOMAIN quotes
               THEN [quotes EXCEPT ![id] = body @@ quotes[id]]
               ELSE quotes
  /\ qreq' = [qreq EXCEPT ![r] = [pc |-> "reread", kind |-> "patchQuote", id |-> id]]
  /\ reply' = NoReply
  /\ UNCHANGED <<shipVars, authVars>>

\* PATCH /api/quotes/:id, from its findOne on
PatchQuoteReread(r) ==
  /\ qreq[r].pc = "reread"
  /\ reply' = Reply(qreq[r], 200, "",
                    IF qreq[r].id \in DOMAIN quotes THEN <<quotes[qreq[r].id]>> ELSE <<>>)
  /\ qreq' = [qreq EXCEPT ![r] = Done]
  /\ UNCHANGED <<shipVars, quotes, authVars>>

\* DELETE /api/quotes/:id
DeleteQuote(id) ==
  /\ quotes' = [i \in DOMAIN quotes \ {id} |-> quotes[i]]
  /\ reply' = Reply([pc |-> "done", kind |-> "deleteQuote", id |-> id], 200, "",
                    << [ok |-> TRUE] >>)
  /\ UNCHANGED <<shipVars, qreq, authVars>>

(* -------------------------------- auth -------------------------------- *)

\* email.toLowerCase()
ToLowerCase(email) == IF email = "A@b.com" THEN "a@b.com" ELSE email

\* bcrypt.hash(password, 10): a salted hash
Hash(password, salt) == [of |-> password, salt |-> salt]

\* process.env.JWT_SECRET || 'dev_secret_change_me'
JWT_SECRET == "dev_secret_change_me"

\* expiresIn: '7d', in seconds, the unit the token's clock counts in
ExpiresIn == 604800

\* jwt.sign({ sub: user._id, email: user.email }, JWT_SECRET, { expiresIn: '7d' }):
\* key stands for the signature, made with the secret it names
signToken(id, user) ==
  [sub |-> id, email |-> user.email, key |-> JWT_SECRET, exp |-> now + ExpiresIn]

\* Verify that does not look at the expiry
VerifyNoExpiry(token) == token.key = JWT_SECRET

\* jwt.verify(token, JWT_SECRET) does not throw: the signature was made with the
\* secret and the expiry is still ahead
Verify(token) == token.key = JWT_SECRET /\ now < token.exp

\* hdr.startsWith('Bearer ') ? hdr.slice(7) : null; null and the empty string are
\* both the empty sequence, the two being alike to !token
BearerToken(hdr) == IF hdr.prefix = "Bearer " THEN hdr.rest ELSE <<>>

\* authMiddleware in front of a route: next is the route's handler
authMiddleware(hdr, route, next) ==
  LET token == BearerToken(hdr)
      call == [pc |-> "done", kind |-> route, hdr |-> hdr]
  IN IF token = <<>>
     THEN /\ reply' = Reply(call, 401, "missing_token", <<>>)
          /\ UNCHANGED <<shipVars, quoteVars, authVars>>
     ELSE IF ~ Verify(token[1])
     THEN /\ reply' = Reply(call, 401, "invalid_token", <<>>)
          /\ UNCHANGED <<shipVars, quoteVars, authVars>>
     ELSE next

\* RegistrationClosed with the count compared to 1
RegistrationClosedOffByOne(existingCount) == existingCount > 1

\* if(existingCount > 0)
RegistrationClosed(existingCount) == existingCount > 0

\* POST /api/auth/register, to the end of its count
RegisterCount(r, body) ==
  /\ FreeSlot(areq, r)
  /\ LET call == [pc |-> "hash", kind |-> "register", body |-> body]
     IN IF ~ (Has(body, "email") /\ Truthy(body.email)
              /\ Has(body, "password") /\ Truthy(body.password))
        THEN /\ reply' = Reply(call, 400, "missing_fields", <<>>)
             /\ areq' = [areq EXCEPT ![r] = Done]
        ELSE IF RegistrationClosed(Cardinality(DOMAIN users))
        THEN /\ reply' = Reply(call, 403, "registration_closed", <<>>)
             /\ areq' = [areq EXCEPT ![r] = Done]
        ELSE /\ reply' = NoReply
             /\ areq' = [areq EXCEPT ![r] = call]
  /\ UNCHANGED <<shipVars, quoteVars, users, issued>>

\* POST /api/auth/register, its bcrypt.hash
RegisterHash(r, salt) ==
  /\ areq[r].pc = "hash"
  /\ areq' = [areq EXCEPT ![r] =
                [pc |-> "insert", kind |-> "register", body |-> areq[r].body,
                 hash |-> Hash(areq[r].body.password, salt)]]
  /\ reply' = NoReply
  /\ UNCHANGED <<shipVars, quoteVars, users, issued>>

\* POST /api/auth/register, from its insert on
RegisterInsert(r, id) ==
  /\ areq[r].pc = "insert"
  /\ id \notin DOMAIN users
  /\ LET user == [email |-> ToLowerCase(areq[r].body.email), password |-> areq[r].hash]
         token == signToken(id, user)
     IN /\ users' = (id :> user) @@ users
        /\ issued' = issued \cup {token}
        /\ reply' = [req |-> areq[r], code |-> 200, error |-> "",
                     doc |-> << [id |-> id, email |-> user.email] >>, token |-> <<token>>]
  /\ areq' = [areq EXCEPT ![r] = Done]
  /\ UNCHANGED <<shipVars, quoteVars>>

\* bcrypt.compare(password, hash)
Compare(password, hash) == hash.of = password

\* POST /api/auth/login, to the end of its findOne: of the users with the email,
\* findOne returns one
LoginFind(r, body) ==
  /\ FreeSlot(areq, r)
  /\ LET call == [pc |-> "compare", kind |-> "login", body |-> body]
         found == IF Has(body, "email")
                  THEN {id \in DOMAIN users : users[id].email = ToLowerCase(body.email)}
                  ELSE {}
     IN IF ~ (Has(body, "email") /\ Truthy(body.email)
              /\ Has(body, "password") /\ Truthy(body.password))
        THEN /\ reply' = Reply(call, 400, "missing_fields", <<>>)
             /\ areq' = [areq EXCEPT ![r] = Done]
        ELSE IF found = {}
        THEN /\ reply' = Reply(call, 401, "invalid_credentials", <<>>)
             /\ areq' = [areq EXCEPT ![r] = Done]
        ELSE /\ reply' = NoReply
             /\ \E id \in found :
                  areq' = [areq EXCEPT ![r] = call @@ [id |-> id, user |-> users[id]]]
  /\ UNCHANGED <<shipVars, quoteVars, users, issued>>

\* POST /api/auth/login, from its bcrypt.compare on
LoginCompare(r) ==
  /\ areq[r].pc = "compare"
  /\ LET user == areq[r].user
         token == signToken(areq[r].id, user)
     IN IF ~ Compare(areq[r].body.password, user.password)
        THEN /\ reply' = Reply(areq[r], 401, "invalid_credentials", <<>>)
             /\ issued' = issued
        ELSE /\ reply' = [req |-> areq[r], code |-> 200, error |-> "",
                          doc |-> << [id |-> areq[r].id, email |-> user.email] >>,
                          token |-> <<token>>]
             /\ issued' = issued \cup {token}
  /\ areq' = [areq EXCEPT ![r] = Done]
  /\ UNCHANGED <<shipVars, quoteVars, users>>

\* the clock advances
Tick ==
  /\ now < MaxClock
  /\ now' = now + 1
  /\ reply' = NoReply
  /\ UNCHANGED <<shipments, req, quoteVars, authVars>>

Init ==
  /\ now = 0
  /\ shipments = [i \in {} |-> Idle]
  /\ req = [r \in Reqs |-> Idle]
  /\ reply = NoReply
  /\ quotes = [i \in {} |-> Idle]
  /\ qreq = [r \in QuoteReqs |-> Idle]
  /\ users = [i \in {} |-> Idle]
  /\ areq = [r \in AuthReqs |-> Idle]
  /\ issued = {}

(* --------------------------- specifications --------------------------- *)

\* the shipment store under create, patch and delete, with every create and patch body.
\* Two nanoid draws that collide within one millisecond (probability 32^-10) are left
\* out, so that a duplicate tracking number can only come from a request.
StoreNext ==
  \/ Tick
  \/ \E body \in CreateBodies, id \in ShipIds, x \in Suffixes :
       /\ \A i \in DOMAIN shipments : shipments[i].trackingNumber # trackingNumber(x)
       /\ CreateShipment(body, id, x, "e1")
  \/ \E r \in Reqs, id \in ShipIds, body \in PatchBodies : PatchUpdate(r, id, body)
  \/ \E r \in Reqs : PatchReread(r)
  \/ \E id \in ShipIds : DeleteShipment(id)

StoreSpec == Init /\ [][StoreNext]_vars

\* the event ledger of one shipment under concurrent requests
LedgerNext ==
  \/ Tick
  \/ \E id \in LedgerIds : CreateShipment(NoFields, id, "A", "e1")
  \/ \E r \in Reqs, id \in LedgerIds : PatchUpdate(r, id, [status |-> "Held"])
  \/ \E r \in Reqs : PatchReread(r)
  \/ \E id \in LedgerIds : DeleteShipment(id)
  \/ \E r \in Reqs, id \in LedgerIds, body \in AppendBodies, e \in EventIds :
       AppendFind(r, id, body, e)
  \/ \E r \in Reqs : AppendUpdate(r)
  \/ \E r \in Reqs : AppendReread(r)
  \/ \E r \in Reqs, id \in LedgerIds, e \in EventIds : RemoveFind(r, id, e)
  \/ \E r \in Reqs : RemoveUpdate(r)
  \/ \E r \in Reqs : RemoveReread(r)

LedgerSpec == Init /\ [][LedgerNext]_vars

\* the shipment store under create, delete and the public lookup; nanoid collisions
\* are left out as in StoreNext
CatalogNext ==
  \/ Tick
  \/ \E id \in ShipIds, x \in Suffixes :
       /\ \A i \in DOMAIN shipments : shipments[i].trackingNumber # trackingNumber(x)
       /\ CreateShipment(NoFields, id, x, "e1")
  \/ \E id \in ShipIds : DeleteShipment(id)
  \/ \E param \in TrackInputs : TrackShipment(param)

CatalogSpec == Init /\ [][CatalogNext]_vars

\* several shipments under create, delete and the two event routes
FleetNext ==
  \/ \E id \in ShipIds, x \in Suffixes :
       /\ \A i \in DOMAIN shipments : shipments[i].trackingNumber # trackingNumber(x)
       /\ CreateShipment(NoFields, id, x, "e1")
  \/ \E id \in ShipIds : DeleteShipment(id)
  \/ \E r \in Reqs, id \in ShipIds : AppendFind(r, id, NoFields, "e2")
  \/ \E r \in Reqs : AppendUpdate(r)
  \/ \E r \in Reqs : AppendReread(r)
  \/ \E r \in Reqs, id \in ShipIds : RemoveFind(r, id, "e2")
  \/ \E r \in Reqs : RemoveUpdate(r)
  \/ \E r \in Reqs : RemoveReread(r)

FleetSpec == Init /\ [][FleetNext]_vars

\* one shipment, created without events of the caller's, under event calls that run
\* one after another
SerialNext ==
  \/ Tick
  \/ \E id \in LedgerIds : CreateShipment(NoFields, id, "A", "e1")
  \/ \E r \in Reqs, id \in LedgerIds, body \in AppendBodies, e \in EventIds :
       Quiet /\ AppendFind(r, id, body, e)
  \/ \E r \in Reqs : AppendUpdate(r)
  \/ \E r \in Reqs : AppendReread(r)
  \/ \E r \in Reqs, id \in LedgerIds, e \in EventIds : Quiet /\ RemoveFind(r, id, e)
  \/ \E r \in Reqs : RemoveUpdate(r)
  \/ \E r \in Reqs : RemoveReread(r)

SerialSpec == Init /\ [][SerialNext]_vars

\* the timestamps of one shipment under patch, append-event and remove-event
ClockNext ==
  \/ Tick
  \/ \E id \in LedgerIds : CreateShipment(NoFields, id, "A", "e1")
  \/ \E r \in Reqs, id \in LedgerIds, body \in ClockPatchBodies : PatchUpdate(r, id, body)
  \/ \E r \in Reqs : PatchReread(r)
  \/ \E r \in Reqs, id \in LedgerIds : AppendFind(r, id, NoFields, "e2")
  \/ \E r \in Reqs : AppendUpdate(r)
  \/ \E r \in Reqs : AppendReread(r)
  \/ \E r \in Reqs, id \in LedgerIds : RemoveFind(r, id, "e2")
  \/ \E r \in Reqs : RemoveUpdate(r)
  \/ \E r \in Reqs : RemoveReread(r)

ClockSpec == Init /\ [][ClockNext]_vars

\* the quote store under its four routes
QuoteNext ==
  \/ Tick
  \/ \E body \in QuoteBodies, id \in QuoteIds : CreateQuote(body, id)
  \/ ListQuotes
  \/ \E r \in QuoteReqs, id \in QuoteIds, body \in QuotePatchBodies :
       PatchQuoteUpdate(r, id, body)
  \/ \E r \in QuoteReqs : PatchQuoteReread(r)
  \/ \E id \in QuoteIds : DeleteQuote(id)

QuoteSpec == Init /\ [][QuoteNext]_vars

\* a request that goes through authMiddleware, with its Authorization header; the
\* requests of more than one step take the first slot, so a run holds one of them
\* for the shipments and one for the quotes
Request(hdr) ==
  \/ authMiddleware(hdr, "listQuotes", ListQuotes)
  \/ \E r \in GateReqs, id \in LedgerIds :
       authMiddleware(hdr, "patchQuote", PatchQuoteUpdate(r, id, [status |-> "approved"]))
  \/ \E id \in LedgerIds : authMiddleware(hdr, "deleteQuote", DeleteQuote(id))
  \/ authMiddleware(hdr, "list", ListShipments)
  \/ \E id \in LedgerIds :
       authMiddleware(hdr, "create", CreateShipment(NoFields, id, "A", "e1"))
  \/ \E r \in GateReqs, id \in LedgerIds :
       authMiddleware(hdr, "patch", PatchUpdate(r, id, [status |-> "Held"]))
  \/ \E id \in LedgerIds : authMiddleware(hdr, "delete", DeleteShipment(id))
  \/ \E r \in GateReqs, id \in LedgerIds :
       authMiddleware(hdr, "append", AppendFind(r, id, NoFields, "e2"))
  \/ \E r \in GateReqs, id \in LedgerIds :
       authMiddleware(hdr, "remove", RemoveFind(r, id, "e2"))

\* the state after the first register: one admin, who holds GoodToken
GateInit ==
  /\ now = 0
  /\ shipments = [i \in {} |-> Idle]
  /\ req = [r \in Reqs |-> Idle]
  /\ reply = NoReply
  /\ quotes = [i \in {} |-> Idle]
  /\ qreq = [r \in QuoteReqs |-> Idle]
  /\ users = (1 :> Admin)
  /\ areq = [r \in AuthReqs |-> Idle]
  /\ issued = {GoodToken}

\* the nine routes behind authMiddleware, and the public quote create, one request
\* after another
GateNext ==
  \/ Tick
  \/ \E hdr \in Headers : Quiet /\ Request(hdr)
  \/ \E id \in LedgerIds : Quiet /\ CreateQuote(NoFields, id)
  \/ \E r \in QuoteReqs : PatchQuoteReread(r)
  \/ \E r \in Reqs : PatchReread(r)
  \/ \E r \in Reqs : AppendUpdate(r)
  \/ \E r \in Reqs : AppendReread(r)
  \/ \E r \in Reqs : RemoveUpdate(r)
  \/ \E r \in Reqs : RemoveReread(r)

GateSpec == GateInit /\ [][GateNext]_vars

\* the credential store under concurrent register and login requests
AuthNext ==
  \/ \E r \in AuthReqs, body \in RegisterBodies : RegisterCount(r, body)
  \/ \E r \in AuthReqs, salt \in Salts : RegisterHash(r, salt)
  \/ \E r \in AuthReqs, id \in UserIds : RegisterInsert(r, id)
  \/ \E r \in AuthReqs, body \in LoginBodies : LoginFind(r, body)
  \/ \E r \in AuthReqs : LoginCompare(r)

AuthSpec == Init /\ [][AuthNext]_vars

(* ------------------------------- claims ------------------------------- *)

EventIdsOf(events) == {events[i].id : i \in 1..Len(events)}

\* C1 as stated: every answered append-event call whose body carries a status X
\* (a non-empty string) returns a shipment with status X whose first event is the
\* new event, with status X.
C1_AppendReturnsStatus ==
  (/\ reply.req.kind = "append" /\ reply.code = 201
   /\ Has(reply.req.body, "status") /\ Truthy(reply.req.body.status)) =>
    /\ reply.doc # <<>>
    /\ reply.doc[1].status = reply.req.body.status
    /\ reply.doc[1].events # <<>>
    /\ reply.doc[1].events[1] = reply.req.event
    /\ reply.doc[1].events[1].status = reply.req.body.status

\* C1 amended: an answered append-event call whose body carries a non-empty
\* status X, and during which no other request wrote the shipment, returns a
\* shipment with status X whose first event is the new event, with status X.
C1_AppendReturnsStatusUnraced ==
  (/\ reply.req.kind = "append" /\ reply.code = 201
   /\ Has(reply.req.body, "status") /\ Truthy(reply.req.body.status)
   /\ ~ reply.req.raced) =>
    /\ reply.doc # <<>>
    /\ reply.doc[1].status = reply.req.body.status
    /\ reply.doc[1].events # <<>>
    /\ reply.doc[1].events[1] = reply.req.event
    /\ reply.doc[1].events[1].status = reply.req.body.status

\* C1 witness: an unraced append with status "Delivered" was answered with the
\* shipment, its ledger now two events long.
C1_Witness ==
  /\ reply.req.kind = "append" /\ reply.code = 201
  /\ Has(reply.req.body, "status") /\ reply.req.body.status = "Delivered"
  /\ ~ reply.req.raced
  /\ reply.doc # <<>>
  /\ Len(reply.doc[1].events) = 2
  /\ reply.doc[1].status = "Delivered"

\* C2 as stated: the shipment every create call returns has a non-empty ledger.
C2_CreatedLedgerNonEmpty ==
  reply.req.kind = "create" => reply.doc[1].events # <<>>

\* C3 as stated: the credential store never holds more than one record.
C3_AtMostOneCredential == Cardinality(DOMAIN users) <= 1

\* C4: once a register call has returned a token, a register call that arrives
\* returns no token and leaves the credential store as it was, and if it carries
\* an email and a password it is answered 403 registration_closed.
C4_LaterRegisterClosed ==
  [][\A r \in AuthReqs, body \in RegisterBodies :
       (issued # {} /\ RegisterCount(r, body)) =>
         /\ users' = users
         /\ issued' = issued
         /\ reply'.token = <<>>
         /\ areq'[r].pc = "done"
         /\ (Has(body, "email") /\ Truthy(body.email)
             /\ Has(body, "password") /\ Truthy(body.password)) =>
              (reply'.code = 403 /\ reply'.error = "registration_closed")]_vars

\* C4 witness: a register call carrying credentials was answered
\* registration_closed after a token had been handed out.
C4_Witness ==
  /\ reply.req.kind = "register" /\ reply.code = 403
  /\ Has(reply.req.body, "password")
  /\ issued # {}

\* C5 as stated: while a shipment record exists its trackingNumber stays the same.
C5_TrackingNumberImmutable ==
  [][\A id \in DOMAIN shipments \cap DOMAIN shipments' :
       shipments'[id].trackingNumber = shipments[id].trackingNumber]_vars

\* C6 as stated: no two shipment records have the same trackingNumber.
C6_TrackingNumberUnique ==
  \A i, j \in DOMAIN shipments :
    i # j => shipments[i].trackingNumber # shipments[j].trackingNumber

\* C7 as stated: a patch that finds no shipment under its id is answered
\* 404 not_found, never with success.
C7_PatchMissingNotFound ==
  (reply.req.kind = "patch" /\ reply.doc = <<>>) =>
    (reply.code = 404 /\ reply.error = "not_found")

\* C8 as stated: the write of a remove-event call whose event id is not in the
\* shipment's ledger leaves the shipment as it is but for updatedAt, and the call
\* is answered 200 with the shipment.
C8_RemoveAbsentNoOp ==
  [][\A r \in Reqs :
       /\ (/\ RemoveUpdate(r)
           /\ req[r].id \in DOMAIN shipments
           /\ req[r].eventId \notin EventIdsOf(shipments[req[r].id].events)) =>
            shipments' = [shipments EXCEPT ![req[r].id].updatedAt = now]
       /\ (/\ RemoveReread(r)
           /\ req[r].id \in DOMAIN shipments) =>
            (reply'.code = 200 /\ reply'.doc = <<shipments[req[r].id]>>)]_vars

\* C8 amended: the same, for a remove-event call during which no other request
\* has written the shipment since the call read it.
C8_RemoveAbsentNoOpUnraced ==
  [][\A r \in Reqs :
       /\ (/\ RemoveUpdate(r)
           /\ ~ req[r].raced
           /\ req[r].id \in DOMAIN shipments
           /\ req[r].eventId \notin EventIdsOf(shipments[req[r].id].events)) =>
            shipments' = [shipments EXCEPT ![req[r].id].updatedAt = now]
       /\ (/\ RemoveReread(r)
           /\ req[r].id \in DOMAIN shipments) =>
            (reply'.code = 200 /\ reply'.doc = <<shipments[req[r].id]>>)]_vars

\* C8 witness: an unraced remove-event call has written, its event id was not in
\* the ledger it read, and the ledger is as it was with updatedAt past createdAt.
C8_Witness ==
  \E r \in Reqs :
    /\ req[r].pc = "reread" /\ req[r].kind = "remove"
    /\ ~ req[r].raced
    /\ req[r].id \in DOMAIN shipments
    /\ req[r].eventId \notin EventIdsOf(req[r].s.events)
    /\ req[r].s.events # <<>>
    /\ shipments[req[r].id].events = req[r].s.events
    /\ shipments[req[r].id].updatedAt > shipments[req[r].id].createdAt

\* C9: the write of a remove-event call leaves the shipment's status as it was,
\* whatever other requests did in between.
C9_RemoveKeepsStatus ==
  [][\A r \in Reqs :
       (RemoveUpdate(r) /\ req[r].id \in DOMAIN shipments) =>
         shipments'[req[r].id].status = shipments[req[r].id].status]_vars

\* C9 witness: a remove-event call has removed the newest event, whose status the
\* shipment carried and still carries, and the newest event left has another.
C9_Witness ==
  \E r \in Reqs :
    /\ req[r].pc = "reread" /\ req[r].kind = "remove"
    /\ req[r].id \in DOMAIN shipments
    /\ req[r].s.events # <<>>
    /\ req[r].s.events[1].id = req[r].eventId
    /\ LET doc == shipments[req[r].id]
       IN /\ doc.status = req[r].s.events[1].status
          /\ doc.events # <<>>
          /\ req[r].eventId \notin EventIdsOf(doc.events)
          /\ doc.events[1].status # doc.status

\* C10 as stated: the write of an append-event call whose body carries no status
\* puts an "In Transit" event first and leaves the stored status as it is at the
\* moment of the write.
C10_AppendNoStatusKeepsStatus ==
  [][\A r \in Reqs :
       (/\ AppendUpdate(r)
        /\ ~ Has(req[r].body, "status")
        /\ req[r].id \in DOMAIN shipments) =>
         /\ shipments'[req[r].id].events[1].status = "In Transit"
         /\ shipments'[req[r].id].status = shipments[req[r].id].status]_vars

\* C11 as stated: while a shipment record exists its createdAt stays the same and
\* its updatedAt never decreases and is never before its createdAt.
C11_TimestampsMonotone ==
  [][\A id \in DOMAIN shipments \cap DOMAIN shipments' :
       /\ shipments'[id].createdAt = shipments[id].createdAt
       /\ shipments'[id].updatedAt >= shipments[id].updatedAt
       /\ shipments'[id].updatedAt >= shipments'[id].createdAt]_vars

\* two strings are the same but for the case of their letters
EqualIgnoreCase(a, b) ==
  /\ Len(a) = Len(b)
  /\ \A i \in 1..Len(a) : LowerChar(a[i]) = LowerChar(b[i])

\* the shipments whose tracking number is the requested value, ignoring case
ExactMatches(param) ==
  {id \in DOMAIN shipments :
     EqualIgnoreCase(Trim(param), Text(shipments[id].trackingNumber))}

\* C12 as stated: the lookup answers with a shipment whose tracking number is the
\* requested value, ignoring case, when there is one, and 404 not_found when
\* there is none.
C12_TrackExactMatch ==
  reply.req.kind = "track" =>
    IF ExactMatches(reply.req.trackingNumber) # {}
    THEN /\ reply.code = 200
         /\ \E id \in ExactMatches(reply.req.trackingNumber) : reply.doc = <<shipments[id]>>
    ELSE reply.code = 404 /\ reply.error = "not_found"

\* C13: a delete call that follows a delete call of the same id is answered
\* {ok: true} as the first was, finds the record gone and leaves the store as the
\* first call left it.
C13_DeleteIdempotent ==
  [][\A id \in ShipIds :
       (reply.req.kind = "delete" /\ reply.req.id = id /\ DeleteShipment(id)) =>
         /\ reply.code = 200 /\ reply.doc = << [ok |-> TRUE] >>
         /\ reply'.code = 200 /\ reply'.doc = << [ok |-> TRUE] >>
         /\ id \notin DOMAIN shipments
         /\ shipments' = shipments]_vars

\* C13 witness: a delete was answered {ok: true}, its record is gone and another
\* record is still stored (the state after the first call and after the second).
C13_Witness ==
  /\ reply.req.kind = "delete" /\ reply.code = 200
  /\ reply.req.id \notin DOMAIN shipments
  /\ DOMAIN shipments # {}

\* C17: the quote that create stores and returns has status "new" and createdAt
\* the time of the call, whatever the body says of the two, and every other field
\* of the body as the body gives it.
C17_QuoteCreateForcesFields ==
  reply.req.kind = "createQuote" =>
    LET doc == quotes[reply.req.id]
        body == reply.req.body
    IN /\ reply.code = 201 /\ reply.doc = <<doc>>
       /\ doc.status = "new"
       /\ doc.createdAt = now
       /\ \A f \in DOMAIN body \ {"status", "createdAt"} : f \in DOMAIN doc /\ doc[f] = body[f]
       /\ DOMAIN doc = DOMAIN body \cup {"status", "createdAt"}

\* C17 witness: a quote was created from a body that supplies status and createdAt.
C17_Witness ==
  /\ reply.req.kind = "createQuote"
  /\ {"status", "createdAt"} \subseteq DOMAIN reply.req.body
  /\ reply.req.body.status # "new" /\ reply.req.body.createdAt # now

\* C14: a request to one of the nine protected routes whose header holds no bearer
\* token is answered 401 missing_token, one whose token was signed with another
\* secret or is past its expiry is answered 401 invalid_token, and neither changes
\* the shipments, the quotes or the users.
C14_GateRejects ==
  [][\A hdr \in Headers :
       /\ ((hdr.prefix # "Bearer " \/ hdr.rest = <<>>) /\ Request(hdr)) =>
            /\ reply'.code = 401 /\ reply'.error = "missing_token"
            /\ UNCHANGED <<shipments, quotes, users>>
       /\ (/\ hdr.prefix = "Bearer " /\ hdr.rest # <<>>
           /\ (hdr.rest[1].key # JWT_SECRET \/ now >= hdr.rest[1].exp)
           /\ Request(hdr)) =>
            /\ reply'.code = 401 /\ reply'.error = "invalid_token"
            /\ UNCHANGED <<shipments, quotes, users>>]_vars

\* C14 witness: a delete of a stored shipment was refused for its expired token.
C14_Witness ==
  /\ reply.req.kind = "delete" /\ reply.code = 401 /\ reply.error = "invalid_token"
  /\ reply.req.hdr.rest = <<OldToken>>
  /\ DOMAIN shipments # {} /\ DOMAIN quotes # {}

\* the credentials a login body matches: the email, case folded, is the stored one
\* and the password is the one that was hashed
Matching(body) ==
  {id \in DOMAIN users :
     /\ users[id].email = ToLowerCase(body.email)
     /\ Compare(body.password, users[id].password)}

\* C15 as stated: a login with an email and a password is answered with a token
\* exactly when a stored credential has that email, case folded, and that password;
\* the token verifies and its subject is the id of such a credential; otherwise the
\* answer is 401 invalid_credentials without a token.
C15_LoginExactlyWhenMatching ==
  (/\ reply.req.kind = "login"
   /\ Has(reply.req.body, "password") /\ Truthy(reply.req.body.password)) =>
    IF Matching(reply.req.body) # {}
    THEN /\ reply.code = 200 /\ reply.token # <<>>
         /\ Verify(reply.token[1])
         /\ reply.token[1].sub \in Matching(reply.req.body)
    ELSE reply.code = 401 /\ reply.error = "invalid_credentials" /\ reply.token = <<>>

\* C16: an append-event or remove-event call that arrives for an id the store does
\* not hold is answered 404 not_found at once and changes no record of the store.
C16_EventOnAbsentNotFound ==
  [][\A r \in Reqs, id \in ShipIds :
       (/\ id \notin DOMAIN shipments
        /\ \/ \E body \in AppendBodies, e \in EventIds : AppendFind(r, id, body, e)
           \/ \E e \in EventIds : RemoveFind(r, id, e)) =>
         /\ reply'.code = 404 /\ reply'.error = "not_found"
         /\ reply'.req.id = id
         /\ req'[r].pc = "done"
         /\ shipments' = shipments]_vars

\* C16 witness: an event call for an absent id was answered not_found while the
\* store holds another shipment.
C16_Witness ==
  /\ reply.req.kind \in {"append", "remove"}
  /\ reply.code = 404
  /\ reply.req.id \notin DOMAIN shipments
  /\ DOMAIN shipments # {}

\* C18: when the event calls run one after another, the update of an append puts
\* its event in front of the ledger the store holds and leaves the rest as it was,
\* the update of a remove drops the events of the given id and keeps the others
\* in their order, and the Created event of the create is the last of the ledger
\* for as long as it is there.
C18_LedgerNewestFirst ==
  [][/\ \A r \in Reqs :
          (req[r].pc = "update" /\ req[r].id \in DOMAIN shipments) =>
            /\ AppendUpdate(r) =>
                 shipments'[req[r].id].events
                   = <<req[r].event>> \o shipments[req[r].id].events
            /\ RemoveUpdate(r) =>
                 shipments'[req[r].id].events
                   = SelectSeq(shipments[req[r].id].events,
                               LAMBDA ev : ev.id # req[r].eventId)
     /\ \A id \in DOMAIN shipments' :
          \A i \in 1..Len(shipments'[id].events) :
            shipments'[id].events[i].status = "Created" => i = Len(shipments'[id].events)]_vars

\* C18 witness: after two appends in a row the ledger holds the later event, the
\* earlier event and the Created event, in that order.
C18_Witness ==
  /\ reply.req.kind = "append" /\ reply.code = 201
  /\ reply.req.id \in DOMAIN shipments
  /\ LET events == shipments[reply.req.id].events
     IN /\ Len(events) = 3
        /\ events[1] = reply.req.event
        /\ events[1].id # events[2].id
        /\ events[3].status = "Created"

\* C19: the write of an event call replaces the whole ledger by the one the call
\* worked out from the array it read, whatever the store holds by then, and the
\* call is answered with success all the same; so of two calls that read the same
\* ledger the later write wins and the other's change is lost.
C19_LastWriterWins ==
  [][\A r \in Reqs :
       /\ (req[r].pc = "update" /\ req[r].id \in DOMAIN shipments) =>
            /\ AppendUpdate(r) =>
                 shipments'[req[r].id].events = <<req[r].event>> \o req[r].s.events
            /\ RemoveUpdate(r) =>
                 shipments'[req[r].id].events
                   = SelectSeq(req[r].s.events, LAMBDA ev : ev.id # req[r].eventId)
       /\ AppendReread(r) => reply'.code = 201
       /\ RemoveReread(r) => reply'.code = 200]_vars

\* C19 witness: an append was answered 201 with the shipment, no call is in flight,
\* and the ledger holds another append's event in front of the Created event but
\* not the event of the append just acknowledged.
C19_Witness ==
  /\ reply.req.kind = "append" /\ reply.code = 201 /\ reply.doc # <<>>
  /\ \A r \in Reqs : ~ InFlight(req[r])
  /\ reply.req.id \in DOMAIN shipments
  /\ LET events == shipments[reply.req.id].events
     IN /\ Len(events) = 2
        /\ events[1].status # "Created" /\ events[2].status = "Created"
        /\ events[1] # reply.req.event

\* C20: a step that makes a shipment id present is a create; the writes of patch,
\* append-event and remove-event never bring back a record that delete removed.
C20_NoResurrection ==
  [][(DOMAIN shipments' \subseteq DOMAIN shipments) \/ reply'.req.kind = "create"]_vars

\* C20 witness: a call read the shipment, delete removed it, and the call then did
\* its write (nothing else has happened since the read): the record is still gone.
C20_Witness ==
  /\ req[1].pc = "reread" /\ req[1].raced
  /\ req[1].kind \in {"append", "remove"}
  /\ \A q \in Reqs \ {1} : req[q].pc = "idle"
  /\ now = 0
  /\ reply = NoReply
  /\ req[1].id \notin DOMAIN shipments
====
